---- MODULE Spec2Model ----
(***************************************************************************)
(* Model of the server actions of natural-language-postgres.               *)
(*                                                                         *)
(* The repository holds two versions of the same server-action file:       *)
(*   src/app/actions.ts    (OpenAI provider, "actions" below)              *)
(*   src/unnamed/part_000  (Groq provider,   "part_000" below)             *)
(* Both export generateQuery, runGenerateSQLQuery and generateChartConfig. *)
(* Every operation is modelled for both versions; the variable impl says   *)
(* which file the running invocation comes from.                           *)
(*                                                                         *)
(* Strings are TLA+ strings; trim, toLowerCase, startsWith, includes,      *)
(* split and join are computed character by character as JavaScript does.  *)
(***************************************************************************)
EXTENDS Integers, Sequences, FiniteSets, TLC

VARIABLES
    op,           \* which exported function this behaviour invokes
    impl,         \* which source file the invocation runs
    pc,           \* position of the invocation (each await is one step)
    input,        \* the string argument (query text or question)
    results,      \* the Result[] argument of generateChartConfig
    tableExists,  \* store: the unicorns relation exists
    tableRows,    \* store: number of rows of unicorns
    preClient,    \* pg Client of the regexp_split_part pre-check
    client,       \* pg Client of the main try block
    sent,         \* statements sent to the store by this invocation, in order
    reply,        \* the store's answer to the latest connect or statement
    llm,          \* what the LLM call did (set when the call completes)
    pending,      \* value or error travelling through a finally block
    outcome,      \* what the caller receives
    call,          \* the invocation whose locals the variables above hold
    others        \* the locals of the invocations suspended at an await

vars == <<op, impl, pc, input, results, tableExists, tableRows,
          preClient, client, sent, reply, llm, pending, outcome, call, others>>

\* the arguments, the store's content and the locals of the other
\* invocations: no step of an invocation changes them
args == <<op, impl, input, results, tableExists, tableRows, call, others>>

----------------------------------------------------------------------------
(* Bounds of the model *)

\* longest guard input, counted in fragments
MaxFrags == 3
\* longest generated question, counted in words
MaxWords == 2
\* largest row count of the unicorns table
MaxRows == 2
\* number of concurrent invocations of runGenerateSQLQuery
NumCalls == 2

----------------------------------------------------------------------------
(* JavaScript string primitives *)

UpperChars == "ABCDEFGHIJKLMNOPQRSTUVWXYZ"
LowerChars == "abcdefghijklmnopqrstuvwxyz"

CharAt(s, i) == SubSeq(s, i, i)

\* String.prototype.toLowerCase on one character (ASCII)
LowerChar(c) ==
    IF \E i \in 1..Len(UpperChars) : CharAt(UpperChars, i) = c
    THEN CharAt(LowerChars, CHOOSE i \in 1..Len(UpperChars) : CharAt(UpperChars, i) = c)
    ELSE c

RECURSIVE ToLowerCase(_)
ToLowerCase(s) ==
    IF s = "" THEN "" ELSE LowerChar(CharAt(s, 1)) \o ToLowerCase(Tail(s))

\* the white space String.prototype.trim removes (the characters the inputs use)
IsSpace(c) == c \in {" ", "\t", "\n"}

RECURSIVE TrimStart(_)
TrimStart(s) ==
    IF s # "" /\ IsSpace(CharAt(s, 1)) THEN TrimStart(Tail(s)) ELSE s

RECURSIVE TrimEnd(_)
TrimEnd(s) ==
    IF s # "" /\ IsSpace(CharAt(s, Len(s)))
    THEN TrimEnd(SubSeq(s, 1, Len(s) - 1))
    ELSE s

Trim(s) == TrimEnd(TrimStart(s))

\* s.replace(/;+$/, '')
RECURSIVE StripTrailingSemicolons(_)
StripTrailingSemicolons(s) ==
    IF s # "" /\ CharAt(s, Len(s)) = ";"
    THEN StripTrailingSemicolons(SubSeq(s, 1, Len(s) - 1))
    ELSE s

StartsWith(s, p) == Len(s) >= Len(p) /\ SubSeq(s, 1, Len(p)) = p

Includes(s, p) ==
    \E i \in 1..(Len(s) - Len(p) + 1) : SubSeq(s, i, i + Len(p) - 1) = p

\* s.split(' '): every single separator character cuts; empty pieces are kept
RECURSIVE SplitFrom(_, _, _)
SplitFrom(s, sep, cur) ==
    IF s = "" THEN <<cur>>
    ELSE IF CharAt(s, 1) = sep
         THEN <<cur>> \o SplitFrom(Tail(s), sep, "")
         ELSE SplitFrom(Tail(s), sep, cur \o CharAt(s, 1))

Split(s, sep) == SplitFrom(s, sep, "")

\* Array.prototype.includes
ArrayIncludes(a, x) == \E i \in 1..Len(a) : a[i] = x

\* Array.prototype.join
RECURSIVE Join(_, _)
Join(a, sep) ==
    IF Len(a) = 0 THEN ""
    ELSE IF Len(a) = 1 THEN a[1]
    ELSE a[1] \o sep \o Join(Tail(a), sep)

----------------------------------------------------------------------------
(* Outcomes *)

NoOutcome == [kind |-> "none"]
\* throw new Error(msg): an error object the code constructs
Throw(msg) == [kind |-> "throw", message |-> msg, origin |-> "code"]
\* an error object of the pg driver or of the LLM SDK, thrown or rethrown as it is
Raw(msg) == [kind |-> "throw", message |-> msg, origin |-> "external"]
Return(v) == [kind |-> "return", value |-> v]

----------------------------------------------------------------------------
(* The Query Guard: the synchronous head of runGenerateSQLQuery *)

Impls == {"actions", "part_000"}

\* src/app/actions.ts: the nine includes() tests of the if
actionsForbidden ==
    <<"drop", "delete", "insert", "update", "alter", "truncate", "create",
      "grant", "revoke">>

\* src/unnamed/part_000: const forbiddenOps
forbiddenOps ==
    <<"drop", "delete", "insert", "update", "alter", "truncate", "create",
      "grant", "revoke", "execute", "merge", "lock", "comment", "explain">>

cleanedQuery(query) == StripTrailingSemicolons(Trim(query))
queryLower(query) == ToLowerCase(cleanedQuery(query))

\* src/app/actions.ts: one condition, one message
GuardActions(query) ==
    LET q == ToLowerCase(Trim(query)) IN
    IF \/ ~StartsWith(q, "select")
       \/ \E i \in 1..Len(actionsForbidden) : Includes(q, actionsForbidden[i])
    THEN Throw("Only SELECT queries are allowed")
    ELSE NoOutcome

\* src/unnamed/part_000: two tests, two messages
GuardPart000(query) ==
    IF ~StartsWith(queryLower(query), "select")
    THEN Throw("Only SELECT queries are allowed")
    ELSE IF \E i \in 1..Len(forbiddenOps) : Includes(queryLower(query), forbiddenOps[i])
         THEN Throw("Query contains forbidden operation: " \o cleanedQuery(query))
         ELSE NoOutcome

Guard(im, query) ==
    IF im = "actions" THEN GuardActions(query) ELSE GuardPart000(query)

\* the two messages the Guard throws
IsGuardError(o) ==
    /\ o.kind = "throw"
    /\ \/ o.message = "Only SELECT queries are allowed"
       \/ StartsWith(o.message, "Query contains forbidden operation: ")

----------------------------------------------------------------------------
(* Inputs *)

\* pieces the guard inputs are concatenated from: white space, terminators,
\* the keyword in several cases, every denylisted token, a token inside a
\* longer identifier, an upper-case token and harmless text
Fragments ==
    {" ", "\n", ";", "select", "SELECT", "x",
     "drop", "delete", "insert", "update", "alter", "truncate", "create",
     "grant", "revoke", "execute", "merge", "lock", "comment", "explain",
     "created_at", "DROP"}

GuardInputs ==
    {Join(fs, "") : fs \in UNION {[1..n -> Fragments] : n \in 0..MaxFrags}}

NoLLM == [kind |-> "none"]
NoReply == [ok |-> TRUE, message |-> "", rows |-> <<>>]

----------------------------------------------------------------------------
(* The Guard alone, as a function of its input *)

InitGuard ==
    /\ op = "guard"
    /\ impl \in Impls
    /\ input \in GuardInputs
    /\ pc = "start"
    /\ results = <<>>
    /\ tableExists = FALSE
    /\ tableRows = 0
    /\ preClient = "none"
    /\ client = "none"
    /\ sent = <<>>
    /\ reply = NoReply
    /\ llm = NoLLM
    /\ pending = NoOutcome
    /\ outcome = NoOutcome
    /\ call = 1
    /\ others = <<>>

GuardCheck ==
    /\ op = "guard"
    /\ pc = "start"
    /\ outcome' = Guard(impl, input)
    /\ pc' = "done"
    /\ UNCHANGED <<args, preClient, client, sent, reply, llm, pending>>

NextGuard == GuardCheck

SpecGuard == InitGuard /\ [][NextGuard]_vars

----------------------------------------------------------------------------
(* The store, as the pg driver shows it to runGenerateSQLQuery *)

\* a Result Row: its columns in the order the store returns them
Col(k, v) == [k |-> k, v |-> v]

\* Object.keys(row), Object.values(row), row[key]
Keys(row) == [i \in 1..Len(row) |-> row[i].k]
Values(row) == [i \in 1..Len(row) |-> row[i].v]
Field(row, key) == row[CHOOSE i \in 1..Len(row) : row[i].k = key].v

StoreRows(rows) == [ok |-> TRUE, message |-> "", rows |-> rows]
StoreError(msg) == [ok |-> FALSE, message |-> msg, rows |-> <<>>]

RelationMissing == "relation \"unicorns\" does not exist"

\* failures any round trip can end in
TransientErrors == {"Connection terminated unexpectedly"}

\* client.connect()
ConnectResults ==
    {StoreRows(<<>>), StoreError("connect ECONNREFUSED 127.0.0.1:5432")}

\* SELECT EXISTS (SELECT FROM pg_tables WHERE tablename = 'unicorns')
ExistsResults ==
    {StoreRows(<< <<Col("exists", tableExists)>> >>)}
        \cup {StoreError(m) : m \in TransientErrors}

\* SELECT COUNT(*) FROM unicorns: pg returns the bigint count as a string
CountResults ==
    (IF tableExists
     THEN {StoreRows(<< <<Col("count", ToString(tableRows))>> >>)}
     ELSE {StoreError(RelationMissing)})
        \cup {StoreError(m) : m \in TransientErrors}

\* the pre-check's SELECT select_investors ... LIKE '%,%' LIMIT 1
TestQueryResults ==
    (IF ~tableExists THEN {StoreError(RelationMissing)}
     ELSE IF tableRows = 0 THEN {StoreRows(<<>>)}
     ELSE {StoreRows(<<>>), StoreRows(<< <<Col("select_investors", "a, b")>> >>)})
        \cup {StoreError(m) : m \in TransientErrors}

\* result sets a read-only query can produce
ResultSets ==
    { <<>>,
      << <<Col("company", "A"), Col("valuation", "10")>>,
         <<Col("company", "B"), Col("valuation", "20")>> >>,
      << <<Col("company", "A")>> >>,
      << <<Col("industry", "Fintech"), Col("count", "2"), Col("total", "30")>> >> }

\* any statement that passed the Guard
MainResults(query) ==
    (IF Includes(ToLowerCase(query), "unicorns") /\ ~tableExists
     THEN {StoreError(RelationMissing)}
     ELSE {StoreRows(rs) : rs \in ResultSets}
            \cup {StoreError("syntax error at or near \"FROM\""),
                  StoreError("relation \"startups\" does not exist")})
        \cup {StoreError(m) : m \in TransientErrors}

\* parseInt on the decimal strings the count query returns
ParseInt(str) == CHOOSE n \in 0..(MaxRows + 1) : ToString(n) = str

\* client.end(): closes an open connection; a client that never connected just ends
End(c) == IF c = "open" THEN "closed" ELSE "ended"

----------------------------------------------------------------------------
(* runGenerateSQLQuery *)

testQuery ==
    "SELECT select_investors FROM unicorns WHERE select_investors LIKE '%,%' LIMIT 1"
tableCheckQuery ==
    "SELECT EXISTS (SELECT FROM pg_tables WHERE tablename = 'unicorns')"
countQueryText == "SELECT COUNT(*) FROM unicorns"

\* what runGenerateSQLQuery returns: rows, or { csv } in part_000
RowsValue(rows) == [shape |-> "rows", rows |-> rows, csv |-> ""]
CsvValue(text) == [shape |-> "csv", rows |-> <<>>, csv |-> text]

\* rows.map(row => Object.values(row).join(',')).join('\n')
csvContent(rows) ==
    Join([i \in 1..Len(rows) |-> Join(Values(rows[i]), ",")], "\n")

\* the catch block around the main try, applied to a caught error e
CatchActions(e) ==
    IF Includes(e.message, RelationMissing)
    THEN Throw("Table does not exist")
    ELSE e

CatchPart000(e) ==
    IF \/ Includes(e.message, RelationMissing)
       \/ e.message = "Table \"unicorns\" does not exist"
    THEN Throw("Table does not exist")
    ELSE IF e.message = "Query executed successfully but returned no results"
         THEN Throw("No data found matching your query criteria")
         ELSE Throw("Database error: " \o e.message)

Catch(im, e) == IF im = "actions" THEN CatchActions(e) ELSE CatchPart000(e)

\* RunStart with the client constructed and connected before the Guard's throw
RunStartConnectsFirst ==
    /\ op = "run"
    /\ pc = "start"
    /\ IF Guard(impl, input).kind = "throw"
       THEN /\ outcome' = Guard(impl, input)
            /\ client' = "open"
            /\ pc' = "done"
            /\ UNCHANGED preClient
       ELSE IF impl = "part_000" /\ Includes(queryLower(input), "regexp_split_part")
            THEN /\ preClient' = "new"
                 /\ pc' = "pre_connect"
                 /\ UNCHANGED <<client, outcome>>
            ELSE /\ client' = "new"
                 /\ pc' = "connect"
                 /\ UNCHANGED <<preClient, outcome>>
    /\ UNCHANGED <<args, sent, reply, llm, pending>>

\* the synchronous head: Guard, then the choice of the first client
RunStart ==
    /\ op = "run"
    /\ pc = "start"
    /\ IF Guard(impl, input).kind = "throw"
       THEN /\ outcome' = Guard(impl, input)
            /\ pc' = "done"
            /\ UNCHANGED <<preClient, client>>
       ELSE IF impl = "part_000" /\ Includes(queryLower(input), "regexp_split_part")
            THEN /\ preClient' = "new"
                 /\ pc' = "pre_connect"
                 /\ UNCHANGED <<client, outcome>>
            ELSE /\ client' = "new"
                 /\ pc' = "connect"
                 /\ UNCHANGED <<preClient, outcome>>
    /\ UNCHANGED <<args, sent, reply, llm, pending>>

\* part_000, pre-check: await client.connect()
PreConnect ==
    /\ op = "run"
    /\ pc = "pre_connect"
    /\ \E r \in ConnectResults :
          /\ reply' = r
          /\ IF r.ok
             THEN /\ preClient' = "open"
                  /\ pc' = "pre_query"
                  /\ UNCHANGED pending
             ELSE /\ preClient' = "failed"
                  /\ pending' = Raw(r.message)
                  /\ pc' = "pre_finally"
    /\ UNCHANGED <<args, client, sent, llm,
                   outcome>>

\* part_000, pre-check: await client.query(testQuery) and the rows.length test
PreQuery ==
    /\ op = "run"
    /\ pc = "pre_query"
    /\ sent' = Append(sent, testQuery)
    /\ \E r \in TestQueryResults :
          /\ reply' = r
          /\ pending' = IF ~r.ok THEN Raw(r.message)
                        ELSE IF Len(r.rows) = 0
                             THEN Throw("No comma-separated values found in select_investors column")
                             ELSE NoOutcome
    /\ pc' = "pre_finally"
    /\ UNCHANGED <<args, preClient, client,
                   llm, outcome>>

\* part_000, pre-check: finally { await client.end() }; no catch, the error goes on
PreFinally ==
    /\ op = "run"
    /\ pc = "pre_finally"
    /\ preClient' = End(preClient)
    /\ IF pending.kind = "throw"
       THEN /\ outcome' = pending
            /\ pc' = "done"
            /\ UNCHANGED client
       ELSE /\ client' = "new"
            /\ pc' = "connect"
            /\ UNCHANGED outcome
    /\ pending' = NoOutcome
    /\ UNCHANGED <<args, sent, reply, llm>>

\* main try: await client.connect()
Connect ==
    /\ op = "run"
    /\ pc = "connect"
    /\ \E r \in ConnectResults :
          /\ reply' = r
          /\ IF r.ok
             THEN /\ client' = "open"
                  /\ pc' = IF impl = "actions" THEN "main" ELSE "exists"
                  /\ UNCHANGED pending
             ELSE /\ client' = "failed"
                  /\ pending' = Catch(impl, Raw(r.message))
                  /\ pc' = "finally"
    /\ UNCHANGED <<args, preClient, sent, llm,
                   outcome>>

\* part_000: the table-existence check
TableCheck ==
    /\ op = "run"
    /\ pc = "exists"
    /\ sent' = Append(sent, tableCheckQuery)
    /\ \E r \in ExistsResults :
          /\ reply' = r
          /\ IF ~r.ok
             THEN /\ pending' = Catch(impl, Raw(r.message))
                  /\ pc' = "finally"
             ELSE IF ~Field(r.rows[1], "exists")
                  THEN /\ pending' = Catch(impl, Throw("Table \"unicorns\" does not exist"))
                       /\ pc' = "finally"
                  ELSE /\ pc' = "count"
                       /\ UNCHANGED pending
    /\ UNCHANGED <<args, preClient, client,
                   llm, outcome>>

\* part_000: the first count check, compared as a string
CountCheck ==
    /\ op = "run"
    /\ pc = "count"
    /\ sent' = Append(sent, countQueryText)
    /\ \E r \in CountResults :
          /\ reply' = r
          /\ IF ~r.ok
             THEN /\ pending' = Catch(impl, Raw(r.message))
                  /\ pc' = "finally"
             ELSE IF Field(r.rows[1], "count") = "0"
                  THEN /\ pending' = Catch(impl, Throw("Table exists but contains no data"))
                       /\ pc' = "finally"
                  ELSE /\ pc' = "recount"
                       /\ UNCHANGED pending
    /\ UNCHANGED <<args, preClient, client,
                   llm, outcome>>

\* part_000: the second count check, compared after parseInt
CountAgain ==
    /\ op = "run"
    /\ pc = "recount"
    /\ sent' = Append(sent, countQueryText)
    /\ \E r \in CountResults :
          /\ reply' = r
          /\ IF ~r.ok
             THEN /\ pending' = Catch(impl, Raw(r.message))
                  /\ pc' = "finally"
             ELSE IF ParseInt(Field(r.rows[1], "count")) = 0
                  THEN /\ pending' = Catch(impl, Throw("The unicorns table exists but contains no data. Please ensure your Supabase database is properly seeded."))
                       /\ pc' = "finally"
                  ELSE /\ pc' = "main"
                       /\ UNCHANGED pending
    /\ UNCHANGED <<args, preClient, client,
                   llm, outcome>>

\* what the try block does with the rows of the main query
MainRows(im, query, rows) ==
    IF im = "actions" THEN Return(RowsValue(rows))
    ELSE IF Len(rows) = 0
         THEN Catch(im, Throw("Your query executed successfully but found no matching records. Try broadening your search criteria."))
         ELSE IF Includes(queryLower(query), "csv") \/ Includes(queryLower(query), "export")
              THEN Return(CsvValue(csvContent(rows)))
              ELSE Return(RowsValue(rows))

\* MainQuery with the normalised text sent instead of the argument
MainQuerySendsCleaned ==
    /\ op = "run"
    /\ pc = "main"
    /\ sent' = Append(sent, cleanedQuery(input))
    /\ \E r \in MainResults(input) :
          /\ reply' = r
          /\ pending' = IF ~r.ok THEN Catch(impl, Raw(r.message))
                        ELSE MainRows(impl, input, r.rows)
    /\ pc' = "finally"
    /\ UNCHANGED <<args, preClient, client,
                   llm, outcome>>

\* await client.query(query): the text sent is the argument, not cleanedQuery
MainQuery ==
    /\ op = "run"
    /\ pc = "main"
    /\ sent' = Append(sent, input)
    /\ \E r \in MainResults(input) :
          /\ reply' = r
          /\ pending' = IF ~r.ok THEN Catch(impl, Raw(r.message))
                        ELSE MainRows(impl, input, r.rows)
    /\ pc' = "finally"
    /\ UNCHANGED <<args, preClient, client,
                   llm, outcome>>

\* Finally with client.end() at the end of the try block instead of in a finally
FinallyLeaksOnError ==
    /\ op = "run"
    /\ pc = "finally"
    /\ client' = IF pending.kind = "throw" THEN client ELSE End(client)
    /\ outcome' = pending
    /\ pending' = NoOutcome
    /\ pc' = "done"
    /\ UNCHANGED <<args, preClient, sent, reply, llm>>

\* Finally with one module-level client shared by all invocations: ending it
\* closes the connection the suspended invocations are using
FinallySharedClient ==
    /\ op = "run"
    /\ pc = "finally"
    /\ client' = End(client)
    /\ others' = [q \in DOMAIN others |->
                     IF others[q].pc # "running" /\ others[q].client = "open"
                     THEN [others[q] EXCEPT !.client = "closed"]
                     ELSE others[q]]
    /\ outcome' = pending
    /\ pending' = NoOutcome
    /\ pc' = "done"
    /\ UNCHANGED <<op, impl, input, results, tableExists, tableRows, call,
                   preClient, sent, reply, llm>>

\* finally { await client.end() }, then the pending return or throw completes
Finally ==
    /\ op = "run"
    /\ pc = "finally"
    /\ client' = End(client)
    /\ outcome' = pending
    /\ pending' = NoOutcome
    /\ pc' = "done"
    /\ UNCHANGED <<args, preClient, sent, reply, llm>>

RunQueries ==
    {"SELECT * FROM unicorns",
     "  select company from unicorns;; ",
     "SELECT * FROM unicorns WHERE company = 'Nonexistent'",
     "DROP TABLE unicorns",
     "SELECT company, created_at FROM unicorns",
     "SELECT comment FROM unicorns",
     "SELECT regexp_split_part(select_investors, ',', 1) FROM unicorns",
     "SELECT company AS export FROM unicorns",
     "select 1 as company"}

Init ==
    /\ op = "run"
    /\ impl \in Impls
    /\ input \in RunQueries
    /\ pc = "start"
    /\ results = <<>>
    /\ tableExists \in BOOLEAN
    /\ tableRows \in (IF tableExists THEN 0..MaxRows ELSE {0})
    /\ preClient = "none"
    /\ client = "none"
    /\ sent = <<>>
    /\ reply = NoReply
    /\ llm = NoLLM
    /\ pending = NoOutcome
    /\ outcome = NoOutcome
    /\ call = 1
    /\ others = <<>>

Next ==
    \/ RunStart
    \/ PreConnect
    \/ PreQuery
    \/ PreFinally
    \/ Connect
    \/ TableCheck
    \/ CountCheck
    \/ CountAgain
    \/ MainQuery
    \/ Finally

Spec == Init /\ [][Next]_vars

----------------------------------------------------------------------------
(* Concurrent invocations of runGenerateSQLQuery *)

(* A server action runs on one thread: between two awaits an invocation runs  *)
(* alone, at an await another invocation may run.  Every action above ends at *)
(* an await (or at the return), so an interleaving is a sequence of those     *)
(* actions with changes of the running invocation in between.  query, the two *)
(* clients and everything else an invocation has are locals of the call.      *)

Calls == 1..NumCalls

\* the locals of the running invocation
Locals ==
    [impl |-> impl, input |-> input, pc |-> pc, preClient |-> preClient,
     client |-> client, sent |-> sent, reply |-> reply, pending |-> pending,
     outcome |-> outcome]

\* the locals of a call that has not run yet
Fresh(im, query) ==
    [impl |-> im, input |-> query, pc |-> "start", preClient |-> "none",
     client |-> "none", sent |-> <<>>, reply |-> NoReply, pending |-> NoOutcome,
     outcome |-> NoOutcome]

\* the entry of others for the invocation that is running
Running == [pc |-> "running"]

\* the running invocation is suspended at its await (or has finished) and
\* invocation q, which has not finished, goes on
Switch ==
    /\ op = "run"
    /\ \E q \in Calls \ {call} :
          /\ others[q].pc # "done"
          /\ call' = q
          /\ others' = [others EXCEPT ![call] = Locals, ![q] = Running]
          /\ impl' = others[q].impl
          /\ input' = others[q].input
          /\ pc' = others[q].pc
          /\ preClient' = others[q].preClient
          /\ client' = others[q].client
          /\ sent' = others[q].sent
          /\ reply' = others[q].reply
          /\ pending' = others[q].pending
          /\ outcome' = others[q].outcome
    /\ UNCHANGED <<op, results, tableExists, tableRows, llm>>

\* the concurrent calls run src/unnamed/part_000 on a query that takes the
\* pre-check, so that each call opens both of its clients in turn
ConcQueries ==
    {"SELECT regexp_split_part(select_investors, ',', 1) FROM unicorns"}

InitConc ==
    /\ op = "run"
    /\ impl = "part_000"
    /\ input \in ConcQueries
    /\ pc = "start"
    /\ results = <<>>
    /\ tableExists \in BOOLEAN
    /\ tableRows \in (IF tableExists THEN {0, MaxRows} ELSE {0})
    /\ preClient = "none"
    /\ client = "none"
    /\ sent = <<>>
    /\ reply = NoReply
    /\ llm = NoLLM
    /\ pending = NoOutcome
    /\ outcome = NoOutcome
    /\ call = 1
    /\ others \in {[c \in Calls |-> IF c = 1 THEN Running ELSE Fresh(impl, f[c])] :
                      f \in [Calls -> ConcQueries]}

NextConc == Next \/ Switch

SpecConc == InitConc /\ [][NextConc]_vars

----------------------------------------------------------------------------
(* The LLM boundary *)

\* what a completed (or failed) LLM step looks like; class is the cause of
\* the failure as the provider knows it, message is all the code sees
LLMOk(text) == [kind |-> "ok", class |-> "", message |-> "", text |-> text]
LLMError(class, msg) == [kind |-> "error", class |-> class, message |-> msg, text |-> ""]

\* texts the model can answer with (the empty text included)
LLMTexts == {"SELECT company FROM unicorns WHERE country = 'India'", ""}

\* failures of the outbound call
LLMCallErrors ==
    {LLMError("quota", "You exceeded your current quota, please check your plan and billing details."),
     LLMError("quota", "Your account is not active, please check your billing details on our website."),
     LLMError("network", "fetch failed"),
     LLMError("malformed", "No object generated: response did not match schema.")}

\* failures of the provider factory inside getOpenAIModel / getGroqModel
ModelFactoryErrors == {"Invalid provider settings"}

IsQuotaMessage(msg) == Includes(msg, "quota") \/ Includes(msg, "billing")

\* getOpenAIModel of src/app/actions.ts: NoOutcome when it returns a model
getOpenAIModelActions(hasKey, factoryError) ==
    IF ~hasKey
    THEN Throw("OpenAI API key is not configured. Please set OPENAI_API_KEY in your .env file.")
    ELSE IF factoryError = "" THEN NoOutcome
    ELSE IF IsQuotaMessage(factoryError)
         THEN Throw("OpenAI API quota exceeded. Please check your billing details or use a different API key.")
         ELSE Raw(factoryError)

\* getGroqModel and getOpenAIModel of src/unnamed/part_000 (same body)
getGroqModel(hasKey, factoryError) ==
    IF ~hasKey
    THEN Throw("Groq API key is not configured. Please set GROQ_API_KEY in your .env file.")
    ELSE IF factoryError = "" THEN NoOutcome
    ELSE IF IsQuotaMessage(factoryError)
         THEN Throw("Groq API quota exceeded. Please check your billing details or use a different API key.")
         ELSE Raw(factoryError)

GetModel(im, hasKey, factoryError) ==
    IF im = "actions" THEN getOpenAIModelActions(hasKey, factoryError)
    ELSE getGroqModel(hasKey, factoryError)

\* the environment a call can find: key set or not, factory failing or not
ModelEnvs ==
    {<<TRUE, "">>, <<FALSE, "">>} \cup {<<TRUE, m>> : m \in ModelFactoryErrors}

----------------------------------------------------------------------------
(* generateQuery *)

\* src/app/actions.ts: the keyword rules of the inner catch
keywordFallback(question) ==
    LET keywords == Split(ToLowerCase(question), " ") IN
    IF ArrayIncludes(keywords, "count") \/ ArrayIncludes(keywords, "how many")
    THEN IF ArrayIncludes(keywords, "industry")
         THEN "SELECT industry, COUNT(*) as count FROM unicorns GROUP BY industry ORDER BY count DESC"
         ELSE IF ArrayIncludes(keywords, "country")
              THEN "SELECT country, COUNT(*) as count FROM unicorns GROUP BY country ORDER BY count DESC"
              ELSE "SELECT 'total' as metric, COUNT(*) as count FROM unicorns"
    ELSE IF ArrayIncludes(keywords, "valuation") \/ ArrayIncludes(keywords, "worth")
    THEN IF ArrayIncludes(keywords, "highest") \/ ArrayIncludes(keywords, "top")
         THEN "SELECT company, valuation FROM unicorns ORDER BY valuation DESC LIMIT 10"
         ELSE IF ArrayIncludes(keywords, "average") \/ ArrayIncludes(keywords, "avg")
              THEN "SELECT 'average' as metric, AVG(valuation) as value FROM unicorns"
              ELSE "SELECT company, valuation FROM unicorns ORDER BY valuation DESC"
    ELSE "SELECT company, valuation FROM unicorns LIMIT 50"

\* src/app/actions.ts: inner catch (fallback or rethrow), then outer catch
generateQueryCatchActions(question, e) ==
    IF IsQuotaMessage(e.message)
    THEN Return(keywordFallback(question))
    ELSE Throw("Failed to generate query: " \o e.message)

\* src/unnamed/part_000: the only catch
generateQueryCatchPart000(question, e) ==
    Throw("Failed to generate query: " \o e.message)

generateQueryCatch(im, question, e) ==
    IF im = "actions" THEN generateQueryCatchActions(question, e)
    ELSE generateQueryCatchPart000(question, e)

\* what generateQuery does with a completed call
generateQueryResult(im, question, r) ==
    IF r.kind = "error" THEN generateQueryCatch(im, question, Raw(r.message))
    ELSE IF im = "actions" THEN Return(r.text)
    ELSE IF r.text # "" THEN Return(r.text)
    ELSE Return("SELECT * FROM unicorns LIMIT 10")

\* up to the await: the model is built, the call is issued
GenerateQueryStart ==
    /\ op = "generateQuery"
    /\ pc = "start"
    /\ \E env \in ModelEnvs :
          IF GetModel(impl, env[1], env[2]).kind = "throw"
          THEN /\ llm' = LLMError("config", GetModel(impl, env[1], env[2]).message)
               /\ outcome' = generateQueryCatch(impl, input, GetModel(impl, env[1], env[2]))
               /\ pc' = "done"
          ELSE /\ pc' = "awaiting"
               /\ UNCHANGED <<llm, outcome>>
    /\ UNCHANGED <<args, preClient, client, sent, reply, pending>>

\* the awaited generateObject / generateText settles
GenerateQueryComplete ==
    /\ op = "generateQuery"
    /\ pc = "awaiting"
    /\ \E r \in {LLMOk(t) : t \in LLMTexts} \cup LLMCallErrors :
          /\ llm' = r
          /\ outcome' = generateQueryResult(impl, input, r)
    /\ pc' = "done"
    /\ UNCHANGED <<args, preClient, client, sent, reply, pending>>

\* words the questions are made of
QuestionWords ==
    {"how", "many", "count", "Count", "industry", "country", "valuation", "worth",
     "highest", "top", "average", "avg", "unicorns"}

ScenarioQuestion == "how many unicorns are in the software industry"

Questions ==
    {Join(ws, " ") : ws \in UNION {[1..n -> QuestionWords] : n \in 0..MaxWords}}
        \cup {ScenarioQuestion}

InitGen ==
    /\ op = "generateQuery"
    /\ impl \in Impls
    /\ input \in Questions
    /\ pc = "start"
    /\ results = <<>>
    /\ tableExists = FALSE
    /\ tableRows = 0
    /\ preClient = "none"
    /\ client = "none"
    /\ sent = <<>>
    /\ reply = NoReply
    /\ llm = NoLLM
    /\ pending = NoOutcome
    /\ outcome = NoOutcome
    /\ call = 1
    /\ others = <<>>

NextGen == GenerateQueryStart \/ GenerateQueryComplete

SpecGen == InitGen /\ [][NextGen]_vars

----------------------------------------------------------------------------
(* generateChartConfig *)

Range(f) == {f[i] : i \in DOMAIN f}

\* the palette slot of index i (0-based): `hsl(var(--chart-${index + 1}))`
chartColor(index) == "hsl(var(--chart-" \o ToString(index + 1) \o "))"

\* yKeys.forEach((key, index) => colors[key] = ...): a later index overwrites
colorsOf(yKeys) ==
    [key \in Range(yKeys) |->
        chartColor((CHOOSE i \in 1..Len(yKeys) :
                       /\ yKeys[i] = key
                       /\ \A j \in (i + 1)..Len(yKeys) : yKeys[j] # key) - 1)]

ChartConfig(type, xKey, yKeys, legend) ==
    [type |-> type, xKey |-> xKey, yKeys |-> yKeys, colors |-> colorsOf(yKeys),
     legend |-> legend]

\* Chart Configs that satisfy configSchema and name columns of the rows
\* (of the default columns when there are no rows)
LLMConfigs(rows) ==
    LET cols == IF Len(rows) = 0 THEN {"company", "valuation"} ELSE Range(Keys(rows[1]))
    IN  {[type |-> t, xKey |-> x, yKeys |-> ys, legend |-> l] :
            t \in {"line", "pie"}, x \in cols,
            ys \in {<<y>> : y \in cols}, l \in {FALSE}}

LLMConfigOk(c) == [kind |-> "ok", class |-> "", message |-> "", config |-> c]
LLMConfigError(e) == [kind |-> "error", class |-> e.class, message |-> e.message,
                      config |-> ChartConfig("", "", <<>>, FALSE)]

\* the try block after the await: colors are recomputed from yKeys
chartPrimary(config) ==
    Return(ChartConfig(config.type, config.xKey, config.yKeys, config.legend))

\* src/app/actions.ts: the quota fallback of the catch block
chartFallback(rows) ==
    IF Len(rows) = 0
    THEN Return([type |-> "bar", xKey |-> "company", yKeys |-> <<"valuation">>,
                 colors |-> [key \in {"valuation"} |-> "hsl(var(--chart-1))"],
                 legend |-> TRUE])
    ELSE Return(ChartConfig("bar", Keys(rows[1])[1], Tail(Keys(rows[1])), TRUE))

chartCatchActions(rows, e) ==
    IF IsQuotaMessage(e.message)
    THEN chartFallback(rows)
    ELSE Throw("Failed to generate chart suggestion")

\* src/unnamed/part_000: the catch block has no fallback
chartCatchPart000(rows, e) == Throw("Failed to generate chart suggestion")

chartCatch(im, rows, e) ==
    IF im = "actions" THEN chartCatchActions(rows, e) ELSE chartCatchPart000(rows, e)

\* up to the await: the model is built inside the try, the call is issued
ChartStart ==
    /\ op = "generateChartConfig"
    /\ pc = "start"
    /\ \E env \in ModelEnvs :
          IF GetModel(impl, env[1], env[2]).kind = "throw"
          THEN /\ llm' = LLMConfigError(LLMError("config", GetModel(impl, env[1], env[2]).message))
               /\ outcome' = chartCatch(impl, results, GetModel(impl, env[1], env[2]))
               /\ pc' = "done"
          ELSE /\ pc' = "awaiting"
               /\ UNCHANGED <<llm, outcome>>
    /\ UNCHANGED <<args, preClient, client, sent, reply, pending>>

\* the awaited generateObject settles
ChartComplete ==
    /\ op = "generateChartConfig"
    /\ pc = "awaiting"
    /\ \E r \in {LLMConfigOk(c) : c \in LLMConfigs(results)}
                   \cup {LLMConfigError(e) : e \in LLMCallErrors} :
          /\ llm' = r
          /\ outcome' = IF r.kind = "ok" THEN chartPrimary(r.config)
                        ELSE chartCatch(impl, results, Raw(r.message))
    /\ pc' = "done"
    /\ UNCHANGED <<args, preClient, client, sent, reply, pending>>

\* the Result[] argument: what runGenerateSQLQuery can have returned, and []
ChartInputs == ResultSets

InitChart ==
    /\ op = "generateChartConfig"
    /\ impl \in Impls
    /\ input \in Questions
    /\ pc = "start"
    /\ results \in ChartInputs
    /\ tableExists = FALSE
    /\ tableRows = 0
    /\ preClient = "none"
    /\ client = "none"
    /\ sent = <<>>
    /\ reply = NoReply
    /\ llm = NoLLM
    /\ pending = NoOutcome
    /\ outcome = NoOutcome
    /\ call = 1
    /\ others = <<>>

NextChart == ChartStart \/ ChartComplete

SpecChart == InitChart /\ [][NextChart]_vars

----------------------------------------------------------------------------
(* C1 *)

\* the denylist as the specification states it
SpecDenylist ==
    {"drop", "delete", "insert", "update", "alter", "truncate", "create",
     "grant", "revoke", "execute", "merge", "lock", "comment", "explain"}

MustBeRejected(query) ==
    LET t == ToLowerCase(Trim(query)) IN
    \/ ~StartsWith(t, "select")
    \/ \E tok \in SpecDenylist : Includes(t, tok)

\* C1: in both files the Guard fails with a guard error on every input whose
\* trimmed, lowercased text does not start with "select" or contains one of
\* the 14 denylisted tokens as a substring.
C1_GuardRejectsDenylist ==
    (op = "guard" /\ pc = "done" /\ MustBeRejected(input)) => IsGuardError(outcome)

\* the same statement for src/unnamed/part_000 alone
C1_Part000RejectsDenylist ==
    (op = "guard" /\ pc = "done" /\ impl = "part_000" /\ MustBeRejected(input))
        => IsGuardError(outcome)

----------------------------------------------------------------------------
(* Error kinds, as the caller of runGenerateSQLQuery can tell them apart *)

TableEmptyMessages ==
    {"Table exists but contains no data",
     "The unicorns table exists but contains no data. Please ensure your Supabase database is properly seeded."}

KindOf(o) ==
    IF o.kind # "throw" THEN "none"
    ELSE IF IsGuardError(o) THEN "GuardError"
    ELSE IF o.message = "Table does not exist" THEN "TableMissing"
    ELSE IF o.message \in TableEmptyMessages THEN "TableEmpty"
    ELSE IF o.message = "No data found matching your query criteria" THEN "NoMatchingRows"
    ELSE IF StartsWith(o.message, "Database error: ") THEN "DatabaseError"
    ELSE "unclassified"

GuardPassed == Guard(impl, input).kind # "throw"

\* a connect was attempted on the client
Attempted(c) == c \in {"open", "closed", "failed", "ended"}

LastSent == IF Len(sent) = 0 THEN "" ELSE sent[Len(sent)]

----------------------------------------------------------------------------
(* C2 *)

\* C2: an invocation whose input the Guard rejects never attempts a connection
\* and never sends a statement, and it ends with the guard error.
C2_RejectedNeverTouchesStore ==
    (op = "run" /\ ~GuardPassed) =>
        /\ ~Attempted(preClient)
        /\ ~Attempted(client)
        /\ sent = <<>>
        /\ pc = "done" => IsGuardError(outcome)

C2_Witness ==
    /\ op = "run"
    /\ pc = "done"
    /\ ~GuardPassed
    /\ IsGuardError(outcome)
    /\ impl = "part_000"
    /\ StartsWith(queryLower(input), "select")

----------------------------------------------------------------------------
(* C5 *)

\* C5: in part_000, when the table exists with 0 rows and the store answers
\* every round trip, an invocation on a Guard-approved query ends with the
\* TableEmpty kind and the query itself was never sent.  Stated for the
\* invocations that skip the regexp_split_part pre-check; those that run it
\* end in the pre-check's own error instead.
C5_EmptyTableIsTableEmpty ==
    (/\ op = "run"
     /\ impl = "part_000"
     /\ pc = "done"
     /\ GuardPassed
     /\ preClient = "none"
     /\ tableExists
     /\ tableRows = 0
     /\ reply.ok) =>
        /\ KindOf(outcome) = "TableEmpty"
        /\ \A i \in 1..Len(sent) : sent[i] # input

----------------------------------------------------------------------------
(* C6 *)

\* C6: when the table has rows and the Guard-approved query runs at the store
\* and returns zero rows, the caller receives the NoMatchingRows kind.
C6_NoRowsIsNoMatchingRows ==
    (/\ op = "run"
     /\ pc = "done"
     /\ GuardPassed
     /\ tableExists
     /\ tableRows > 0
     /\ LastSent = input
     /\ reply.ok
     /\ reply.rows = <<>>) =>
        KindOf(outcome) = "NoMatchingRows"

----------------------------------------------------------------------------
(* C7 *)

ExecutorKinds == {"TableMissing", "TableEmpty", "NoMatchingRows", "DatabaseError"}

\* a store message of the form: relation ... does not exist
IsRelationMissing(msg) ==
    StartsWith(msg, "relation ") /\ Includes(msg, " does not exist")

\* C7: in part_000 every failure on a Guard-approved query has one of the four
\* executor kinds; after a failed store round trip it is TableMissing when the
\* store's message reads relation ... does not exist, a DatabaseError carrying
\* the store's message otherwise, and never the store's own error object.
C7_FailuresClassified ==
    (/\ op = "run"
     /\ impl = "part_000"
     /\ pc = "done"
     /\ GuardPassed
     /\ outcome.kind = "throw") =>
        /\ KindOf(outcome) \in ExecutorKinds
        /\ outcome.origin # "external"
        /\ ~reply.ok =>
              IF IsRelationMissing(reply.message)
              THEN KindOf(outcome) = "TableMissing"
              ELSE /\ KindOf(outcome) = "DatabaseError"
                   /\ Includes(outcome.message, reply.message)

----------------------------------------------------------------------------
(* C8 *)

\* C8: when an invocation has returned or thrown, none of its connections is
\* still open.
C8_ConnectionsReleased ==
    (op = "run" /\ pc = "done") => (preClient # "open" /\ client # "open")

\* an error path on which both clients were connected and have been closed
C8_Witness ==
    /\ op = "run"
    /\ pc = "done"
    /\ outcome.kind = "throw"
    /\ preClient = "closed"
    /\ client = "closed"

----------------------------------------------------------------------------
(* C3 *)

\* C3: in src/app/actions.ts, with the LLM failing on quota, generateQuery on
\* the scenario question returns the GROUP BY industry count query.
C3_HowManyIndustry ==
    (/\ op = "generateQuery"
     /\ impl = "actions"
     /\ pc = "done"
     /\ input = ScenarioQuestion
     /\ llm.kind = "error"
     /\ llm.class = "quota") =>
        outcome = Return("SELECT industry, COUNT(*) as count FROM unicorns GROUP BY industry ORDER BY count DESC")

----------------------------------------------------------------------------
(* C4 *)

IsGenerationError(o) ==
    o.kind = "throw" /\ StartsWith(o.message, "Failed to generate query")

\* the caller got SQL text that is not the text the LLM produced
ReturnedFallback ==
    outcome.kind = "return" /\ (llm.kind # "ok" \/ outcome.value # llm.text)

\* C4: generateQuery returns a fallback query without an error exactly when
\* the LLM call failed with a quota/billing-class error; every other LLM
\* failure reaches the caller as a generation error.
C4_FallbackIffQuota ==
    (op = "generateQuery" /\ pc = "done") =>
        /\ ReturnedFallback <=> (llm.kind = "error" /\ llm.class = "quota")
        /\ (llm.kind = "error" /\ llm.class # "quota") => IsGenerationError(outcome)

----------------------------------------------------------------------------
(* C9 *)

\* C9: every Chart Config generateChartConfig returns has a non-empty yKeys,
\* and its xKey and each of its yKeys is a column of every row of the input.
C9_KeysPresentInRows ==
    (op = "generateChartConfig" /\ pc = "done" /\ outcome.kind = "return") =>
        /\ Len(outcome.value.yKeys) > 0
        /\ \A i \in 1..Len(results) :
              /\ outcome.value.xKey \in Range(Keys(results[i]))
              /\ Range(outcome.value.yKeys) \subseteq Range(Keys(results[i]))

----------------------------------------------------------------------------
(* C10 *)

\* the i-th palette slot, i counted from 1
PaletteSlot(i) == "hsl(var(--chart-" \o ToString(i) \o "))"

\* the fallback config as the specification describes it
ReferenceFallback(rows) ==
    IF Len(rows) = 0
    THEN [type |-> "bar", xKey |-> "company", yKeys |-> <<"valuation">>,
          colors |-> [k \in {"valuation"} |-> PaletteSlot(1)], legend |-> TRUE]
    ELSE LET cols == Keys(rows[1])
             ys == SubSeq(cols, 2, Len(cols))
         IN  [type |-> "bar", xKey |-> cols[1], yKeys |-> ys,
              colors |-> [k \in Range(ys) |->
                             PaletteSlot(CHOOSE i \in 1..Len(ys) : ys[i] = k)],
              legend |-> TRUE]

\* C10: after a quota/billing-class LLM error generateChartConfig returns the
\* reference fallback config and does not throw; after any other LLM error it
\* throws the chart-config error.
C10_QuotaGivesReferenceFallback ==
    (op = "generateChartConfig" /\ pc = "done" /\ llm.kind = "error") =>
        IF llm.class = "quota"
        THEN outcome = Return(ReferenceFallback(results))
        ELSE outcome = Throw("Failed to generate chart suggestion")

\* the same statement for src/app/actions.ts alone
C10_ActionsQuotaGivesReferenceFallback ==
    (op = "generateChartConfig" /\ impl = "actions" /\ pc = "done" /\ llm.kind = "error") =>
        IF llm.class = "quota"
        THEN outcome = Return(ReferenceFallback(results))
        ELSE outcome = Throw("Failed to generate chart suggestion")

----------------------------------------------------------------------------
(* C11 *)

\* C11: the step that issues the main query of a Guard-approved invocation
\* sends exactly the text the caller passed in, and nothing else.
C11_MainQueryIsInputText ==
    [][(op = "run" /\ pc = "main" /\ pc' # "main") =>
          (GuardPassed /\ sent' = Append(sent, input))]_vars

\* the main query was sent for an input that normalisation would change
C11_Witness ==
    /\ op = "run"
    /\ impl = "part_000"
    /\ pc = "finally"
    /\ LastSent = input
    /\ cleanedQuery(input) # input

----------------------------------------------------------------------------
(* C12 *)

IsPrefix(a, b) == Len(a) <= Len(b) /\ \A i \in 1..Len(a) : a[i] = b[i]

\* C12: in part_000 the statements a Guard-approved invocation sends are a
\* prefix of <<existence check, count check, main query>>; the count check
\* follows an existence check that answered true and the main query a count
\* that was not zero.  Stated for the invocations that skip the
\* regexp_split_part pre-check, which sends a statement of its own first.
C12_AtMostThreeRoundTrips ==
    (op = "run" /\ impl = "part_000" /\ GuardPassed /\ preClient = "none") =>
        /\ IsPrefix(sent, <<tableCheckQuery, countQueryText, input>>)
        /\ Len(sent) >= 2 => tableExists
        /\ Len(sent) >= 3 => tableRows > 0

----------------------------------------------------------------------------
(* C13 *)

\* the locals of every invocation, running or suspended
AllLocals == [c \in Calls |-> IF c = call THEN Locals ELSE others[c]]

\* no invocation holds two open connections
AtMostOneOpenEach ==
    \A c \in Calls :
        ~(AllLocals[c].preClient = "open" /\ AllLocals[c].client = "open")

\* C13: after every step each invocation holds at most one open connection,
\* and a step of one invocation (a connect, a query, a failure, a release)
\* leaves the clients and all other locals of every other invocation as they
\* were.
C13_InvocationsIsolated ==
    [][AtMostOneOpenEach' /\ (call' = call => others' = others)]_vars

\* one invocation has failed and released its connection while another,
\* suspended, still holds its own open connection
C13_Witness ==
    /\ op = "run"
    /\ pc = "done"
    /\ outcome.kind = "throw"
    /\ client = "closed"
    /\ \E q \in Calls \ {call} : others[q].client = "open"

====
